---- MODULE Spec2Model ----
(***************************************************************************)
(* PizzePOS: the event broker (corazon), the device registries and the     *)
(* WebSocket gateway (microservidor), modelled from the TypeScript source. *)
(***************************************************************************)
EXTENDS Integers, Sequences, FiniteSets, TLC

(***************************************************************************)
(* Bounds of the model.                                                    *)
(***************************************************************************)
\* handlers that may be subscribed on the core bus
MaxSubs == 2
\* records in a device list read from dispositivos.json
MaxDispositivos == 2
\* sockets the gateway accepts
MaxSockets == 2
\* cargarDispositivos calls that await the read of the source at a time
MaxCargas == 2
\* eventBus.setMaxListeners(50)
MaxListeners == 50
\* how far past MaxListeners the handlers of one event type may grow
MaxExceso == 1

(***************************************************************************)
(* JavaScript values.  A value carries its runtime type: the validators    *)
(* below decide on the type tag as Zod and typeof do.                      *)
(***************************************************************************)
Undef == [t |-> "undef", s |-> "", n |-> 0]
Str(x) == [t |-> "str", s |-> x, n |-> 0]
Num(k) == [t |-> "num", s |-> "", n |-> k]
\* the non-integer number k + 1/2
NumMedio(k) == [t |-> "num", s |-> "medio", n |-> k]
Bool(b) == [t |-> "bool", s |-> IF b THEN "true" ELSE "false", n |-> 0]
\* an object (mapping) whose contents are named x
Obj(x) == [t |-> "obj", s |-> x, n |-> 0]

EsString(v) == v.t = "str"
EsEnteroPositivo(v) == v.t = "num" /\ v.s = "" /\ v.n > 0

\* strings of the model that match Zod's uuid() and datetime() patterns
CadenasUuid == {"uuid-1", "uuid-2"}
CadenasFechaIso == {"2025-01-01T10:00:00Z"}

(***************************************************************************)
(* Raw messages.  meta / contexto say whether that sub-object is present;  *)
(* destinatario is a top-level key outside the envelope schema.            *)
(***************************************************************************)
Crudo(mi, ti, tp, og, pr, pl, di, ds) ==
  [objeto |-> TRUE, meta |-> TRUE, id |-> mi, timestamp |-> ti, tipo |-> tp, origen |-> og,
   prioridad |-> pr, payload |-> pl, contexto |-> TRUE, dispositivoId |-> di,
   destinatario |-> ds]

SinMeta(c) ==
  [c EXCEPT !.meta = FALSE, !.id = Undef, !.timestamp = Undef, !.tipo = Undef,
            !.origen = Undef, !.prioridad = Undef]

SinContexto(c) == [c EXCEPT !.contexto = FALSE, !.dispositivoId = Undef]

Dispositivos == {"term-1", "term-2"}
Llaves == {"k1", "k2"}
TiposEnvelope == {"cart:itemAdded", "core:eventoRecibido"}
TiposSuscribibles ==
  TiposEnvelope \cup {"core:eventoDistribuido", "core:errorDetectado",
                      "core:llaveRevocada"}
TiposBus == TiposSuscribibles \cup {"", "core:dispositivosCargados"}

CrudoBase == Crudo(Str("uuid-1"), Str("2025-01-01T10:00:00Z"), Str("cart:itemAdded"),
                   Str("k1"), Num(1), Obj("p1"), Str("term-1"), Undef)

\* envelopes that pass the schema
CrudosValidos ==
  { Crudo(Str(i), Str("2025-01-01T10:00:00Z"), Str(tp), Str(og), Num(1), Obj("p1"),
          Str(d), Undef) :
      i \in {"uuid-1"}, tp \in TiposEnvelope, og \in Llaves, d \in Dispositivos }
  \cup { [CrudoBase EXCEPT !.id = Str("uuid-2")],
         [CrudoBase EXCEPT !.destinatario = Str("term-2")],
         [CrudoBase EXCEPT !.tipo = Str("")],
         [CrudoBase EXCEPT !.origen = Str("")],
         [CrudoBase EXCEPT !.dispositivoId = Str("")],
         [CrudoBase EXCEPT !.prioridad = Num(9)] }

\* one field of the base envelope missing or of the wrong type
CrudosInvalidos ==
  { SinMeta(CrudoBase), SinContexto(CrudoBase) }
  \cup { [CrudoBase EXCEPT !.id = v] : v \in {Undef, Str("no-uuid")} }
  \cup { [CrudoBase EXCEPT !.timestamp = v] : v \in {Undef, Str("ayer")} }
  \cup { [CrudoBase EXCEPT !.tipo = v] : v \in {Num(7)} }
  \cup { [CrudoBase EXCEPT !.origen = v] : v \in {Undef} }
  \cup { [CrudoBase EXCEPT !.prioridad = v] :
           v \in {Undef, Num(0), NumMedio(1), Str("1")} }
  \cup { [CrudoBase EXCEPT !.payload = v] : v \in {Undef, Str("x")} }
  \cup { [CrudoBase EXCEPT !.dispositivoId = v] : v \in {Undef, Num(7)} }

\* a decoded JSON value that is not an object (a number, a string)
CrudoNoObjeto ==
  [objeto |-> FALSE, meta |-> FALSE, id |-> Undef, timestamp |-> Undef, tipo |-> Undef,
   origen |-> Undef, prioridad |-> Undef, payload |-> Undef, contexto |-> FALSE,
   dispositivoId |-> Undef, destinatario |-> Undef]

Crudos == CrudosValidos \cup CrudosInvalidos \cup {CrudoNoObjeto}

(***************************************************************************)
(* EventoSchema (Zod): the structural validation of the broker.            *)
(***************************************************************************)
EsquemaAcepta(c) ==
  /\ c.objeto
  /\ c.meta
  /\ EsString(c.id) /\ c.id.s \in CadenasUuid
  /\ EsString(c.timestamp) /\ c.timestamp.s \in CadenasFechaIso
  /\ EsString(c.tipo)
  /\ EsString(c.origen)
  /\ EsEnteroPositivo(c.prioridad)
  /\ c.payload.t = "obj"
  /\ c.contexto
  /\ EsString(c.dispositivoId)

\* esEventoValido: truthiness and typeof checks only
EsEventoValido(c) ==
  /\ c.objeto
  /\ c.meta
  /\ EsString(c.id)
  /\ EsString(c.timestamp)
  /\ EsString(c.tipo)
  /\ EsString(c.origen)
  /\ c.prioridad.t = "num"
  /\ c.payload.t = "obj"
  /\ c.contexto
  /\ EsString(c.dispositivoId)

\* z.object() keeps the declared keys only: the parsed value has no destinatario
EsquemaParse(c) == [c EXCEPT !.destinatario = Undef]

(***************************************************************************)
(* State.                                                                  *)
(***************************************************************************)
VARIABLES
  \* core bus (mitt): per event type, the handlers in subscription order;
  \* handler i of a type is subs[type][i], TRUE when that handler throws
  subs,
  \* table of validacion/llaves, consulted by the broker
  llavesTabla,
  \* raw input and emissions of the latest procesarEvento call made under
  \* the current subscriptions; whether an exception left procesarEvento
  entrada, traza, propagado,
  \* registry of the core (registroDispositivos) and of the gateway
  \* (autenticacion): the device tables in memory
  dispositivosAutorizados, dispositivosAutenticacion,
  \* the latest registry operation: its name, arguments and result
  ultimaOp,
  \* emissions of the latest gateway-side operation on global.eventBus
  trazaGlobal,
  \* ws: the conexiones map as its set of entries; per socket, its
  \* readyState and the dispositivoId its handlers close over
  conexiones, socks,
  \* the latest gateway operation, and per device id the socket that
  \* identified itself under it last
  pasoGw, ultimoIdentificado,
  \* the latest inbound frame and the return value of the latest broadcast
  ultimoMensaje, enviados,
  \* the cargarDispositivos calls that await the read of the source, and
  \* per registry the latest list a load accepted
  cargasEnVuelo, aceptadas,
  \* the process: whether it runs, is shutting down or has exited, and why;
  \* the handlers added to global.eventBus through suscribirseEvento for
  \* microservidor:errorConexion, those that return and those that throw;
  \* the handlers each system event type of the core has
  proceso, oyentes, listenersSistema,
  \* the array a caller holds from the latest getDispositivos or
  \* getDispositivosAutorizados: the registry it came from and, per element,
  \* the position of the registry record it refers to (0: a record the
  \* caller added)
  devuelta,
  \* the envelope the latest call of crearEventoBase or crearEvento returned
  construido,
  \* iniciarMicroservidor: the step it has reached, what the environment
  \* gives it and the steps it has completed, in order
  arranque,
  \* the core: corazonIniciado, the iniciarCorazon calls suspended at an
  \* await, and the core:listo events emitted since the module was loaded
  corazon,
  \* of the cargarDispositivos calls in flight, those started before a call
  \* that has already assigned the table
  superadas

varsBroker == <<subs, entrada, traza, propagado>>
varsRegistro == <<llavesTabla, dispositivosAutorizados, dispositivosAutenticacion, ultimaOp,
                  cargasEnVuelo, aceptadas, devuelta, superadas>>

varsArranque == <<construido, arranque, corazon>>

varsConexion == <<conexiones, socks, pasoGw, ultimoIdentificado, ultimoMensaje,
                  enviados, proceso, oyentes, listenersSistema>>

varsProceso == <<proceso, oyentes, listenersSistema, construido, arranque, corazon>>

varsGateway == <<conexiones, socks, pasoGw, ultimoIdentificado, ultimoMensaje,
                 enviados, proceso, oyentes, listenersSistema,
                 construido, arranque, corazon>>

vars == <<subs, llavesTabla, entrada, traza, propagado, dispositivosAutorizados,
          dispositivosAutenticacion, ultimaOp, trazaGlobal, conexiones, socks,
          pasoGw, ultimoIdentificado, ultimoMensaje, enviados,
          cargasEnVuelo, aceptadas, proceso, oyentes, listenersSistema,
          devuelta, construido, arranque, corazon, superadas>>

(***************************************************************************)
(* Device records.                                                         *)
(***************************************************************************)
Registro(i, l, a, r, x) == [id |-> i, llave |-> l, activo |-> a, rol |-> r, nota |-> x]

\* validarLlaveDispositivo of validacion/llaves: a record with that id
\* exists, is active and holds exactly that key
ValidarLlaveDispositivo(id, llave) ==
  \E i \in 1..Len(llavesTabla) :
    /\ llavesTabla[i].id = id
    /\ llavesTabla[i].activo = Bool(TRUE)
    /\ llavesTabla[i].llave = llave

(***************************************************************************)
(* The core bus.  EventBus.emit(type, data) calls the handlers of the type *)
(* in subscription order; a handler that throws ends the emit, and the     *)
(* exception reaches the caller of emit.                                   *)
(***************************************************************************)
PrimeroQueLanza(hs) ==
  IF \E i \in 1..Len(hs) : hs[i]
    THEN CHOOSE i \in 1..Len(hs) : hs[i] /\ \A j \in 1..(i - 1) : ~hs[j]
    ELSE 0

\* one emission: handlers 1..llamados of the type were called, orden lists
\* them in the order of the calls; lanzo when the last of them threw
Emit(tipo, dato) ==
  LET hs == subs[tipo]
      k == PrimeroQueLanza(hs)
      n == IF k = 0 THEN Len(hs) ELSE k
  IN [tr |-> << [tipo |-> tipo, dato |-> dato, llamados |-> n,
                 orden |-> [h \in 1..n |-> h]] >>,
      lanzo |-> k # 0]

\* statement sequencing: r2 runs only if r1 did not throw
Luego(r1, r2) ==
  IF r1.lanzo THEN r1 ELSE [tr |-> r1.tr \o r2.tr, lanzo |-> r2.lanzo]

\* try { cuerpo } catch { captura }
TryCatch(cuerpo, captura) ==
  IF cuerpo.lanzo THEN [tr |-> cuerpo.tr \o captura.tr, lanzo |-> captura.lanzo]
  ELSE cuerpo

(***************************************************************************)
(* Event data published on the core bus.                                   *)
(***************************************************************************)
CrudoNulo == CrudoNoObjeto

Dato(forma, cuerpo, disp, oid, otipo, oorigen, prio, carga) ==
  [forma |-> forma, cuerpo |-> cuerpo, dispositivo |-> disp, origId |-> oid,
   origTipo |-> otipo, origOrigen |-> oorigen, prioridad |-> prio, payload |-> carga]

DatoEvento(ev) ==
  Dato("evento", ev, ev.dispositivoId, ev.id, ev.tipo, ev.origen, ev.prioridad, ev.payload)

DatoLlaveRevocada(ev) ==
  Dato("llaveRevocada", CrudoNulo, ev.dispositivoId, Undef, Undef, Undef, Undef, Undef)

DatoEventoInvalido(crudo) ==
  Dato("EVENTO_INVALIDO", crudo, Undef, Undef, Undef, Undef, Undef, Undef)

\* a confirmation that copies the payload of the envelope
DatoConfirmacionConPayload(ev) ==
  Dato("confirmacion", CrudoNulo, Str("corazon"), ev.id, ev.tipo, ev.origen,
       ev.prioridad, ev.payload)

DatoConfirmacion(ev) ==
  Dato("confirmacion", CrudoNulo, Str("corazon"), ev.id, ev.tipo, ev.origen,
       ev.prioridad, Undef)

DatoErrorDistribucion(ev) ==
  Dato("errorDistribucion", CrudoNulo, Str("corazon"), ev.id, ev.tipo, Undef,
       Num(9), Undef)

(***************************************************************************)
(* distribuirEvento and procesarEvento.                                    *)
(***************************************************************************)
DistribuirEvento(ev) ==
  TryCatch(Luego(Emit(ev.tipo.s, DatoEvento(ev)),
                 Emit("core:eventoDistribuido", DatoConfirmacion(ev))),
           Emit("core:errorDetectado", DatoErrorDistribucion(ev)))

Nada == [tr |-> << >>, lanzo |-> FALSE]

\* procesarEvento without the return that follows the llaveRevocada emission
CuerpoProcesarSinReturn(ev) ==
  Luego(IF ~ValidarLlaveDispositivo(ev.dispositivoId, ev.origen)
          THEN Emit("core:llaveRevocada", DatoLlaveRevocada(ev))
          ELSE Nada,
        Luego(Emit("core:eventoRecibido", DatoEvento(ev)), DistribuirEvento(ev)))

\* procesarEvento rejecting the device that the latest revocation named
CuerpoProcesarRecuerdaRevocacion(ev) ==
  IF (pasoGw.op = "revocar" /\ pasoGw.clave = ev.dispositivoId)
       \/ ~ValidarLlaveDispositivo(ev.dispositivoId, ev.origen)
    THEN Emit("core:llaveRevocada", DatoLlaveRevocada(ev))
    ELSE Luego(Emit("core:eventoRecibido", DatoEvento(ev)), DistribuirEvento(ev))

\* procesarEvento handing the event to the distributor before it publishes
\* core:eventoRecibido
CuerpoProcesarDistribuyePrimero(ev) ==
  IF ~ValidarLlaveDispositivo(ev.dispositivoId, ev.origen)
    THEN Emit("core:llaveRevocada", DatoLlaveRevocada(ev))
    ELSE Luego(DistribuirEvento(ev), Emit("core:eventoRecibido", DatoEvento(ev)))

\* the body of procesarEvento's try block once the schema has accepted
CuerpoProcesar(ev) ==
  IF ~ValidarLlaveDispositivo(ev.dispositivoId, ev.origen)
    THEN Emit("core:llaveRevocada", DatoLlaveRevocada(ev))
    ELSE Luego(Emit("core:eventoRecibido", DatoEvento(ev)), DistribuirEvento(ev))

\* procesarEvento casting the raw input instead of parsing it
ResultadoProcesarSinEsquema(crudo) ==
  IF ~(crudo.objeto /\ crudo.meta /\ crudo.contexto)
    THEN Emit("core:errorDetectado", DatoEventoInvalido(crudo))
    ELSE TryCatch(CuerpoProcesar(crudo),
                  Emit("core:errorDetectado", DatoEventoInvalido(crudo)))

ResultadoProcesar(crudo) ==
  IF ~EsquemaAcepta(crudo)
    THEN Emit("core:errorDetectado", DatoEventoInvalido(crudo))
    ELSE TryCatch(CuerpoProcesar(EsquemaParse(crudo)),
                  Emit("core:errorDetectado", DatoEventoInvalido(crudo)))

ProcesarEvento ==
  \E crudo \in Crudos :
    LET r == ResultadoProcesar(crudo)
    IN /\ entrada' = crudo
       /\ traza' = r.tr
       /\ propagado' = r.lanzo
       /\ UNCHANGED <<subs, trazaGlobal>>
       /\ UNCHANGED varsRegistro
       /\ UNCHANGED varsGateway

\* EventBus.on(tipo, handler): a new handler, which either returns or throws
NumSubs == Len(subs["cart:itemAdded"]) + Len(subs["core:eventoRecibido"])
           + Len(subs["core:eventoDistribuido"]) + Len(subs["core:errorDetectado"])
           + Len(subs["core:llaveRevocada"])

Suscribir ==
  /\ NumSubs < MaxSubs
  /\ \E t \in TiposSuscribibles, lanza \in BOOLEAN :
       subs' = [subs EXCEPT ![t] = Append(@, lanza)]
  /\ entrada' = CrudoNulo
  /\ traza' = << >>
  /\ propagado' = FALSE
  /\ UNCHANGED trazaGlobal
  /\ UNCHANGED varsRegistro
  /\ UNCHANGED varsGateway

(***************************************************************************)
(* The broker with its bus.                                                *)
(***************************************************************************)
TablasBroker ==
  { << >>,
    << Registro(Str("term-1"), Str("k1"), Bool(TRUE), Undef, Undef) >>,
    << Registro(Str("term-1"), Str("k1"), Bool(FALSE), Undef, Undef) >> }

ClavesDispositivo == {Str("term-1"), Str("term-2")}

PasoGw(op, k, clave, escritos, retorno) ==
  [op |-> op, socket |-> k, clave |-> clave, escritos |-> escritos, retorno |-> retorno]

PasoNinguno == PasoGw("ninguno", 0, Undef, {}, FALSE)

\* an inbound frame: text that is no JSON, the JSON null, or a JSON value
Mensaje(json, nulo, datos) == [json |-> json, nulo |-> nulo, datos |-> datos]

MensajeNinguno == Mensaje(FALSE, FALSE, CrudoNulo)

OpNinguna ==
  [op |-> "ninguna", valido |-> FALSE, esperada |-> << >>, id |-> Undef,
   llave |-> Undef, retorno |-> FALSE]

\* the state after the modules are loaded, but for the tables of the core
\* no array handed out, or the one handed out belongs to a replaced table
DevueltaNinguna == [registro |-> "ninguno", refs |-> << >>]

\* no envelope has been built
ConstruidoNinguno == [fn |-> "ninguna", evento |-> CrudoNulo]

\* iniciarMicroservidor has run to its end: servidorIniciado is true
ArranqueHecho ==
  [fase |-> "listo", configLegible |-> TRUE, puertoLibre |-> TRUE,
   pasos |-> <<"config", "validacion", "listeners", "websocket", "listo">>]

\* iniciarCorazon has run to its end: corazonIniciado is true
CorazonIniciado == [iniciado |-> TRUE, enCurso |-> 0, listos |-> 1]

\* the process after iniciarMicroservidor has completed
ProcesoActivo == [estado |-> "activo", causa |-> "ninguna"]

InitNucleo ==
  /\ subs = [t \in TiposBus |-> << >>]
  /\ entrada = CrudoNulo
  /\ traza = << >>
  /\ propagado = FALSE
  /\ dispositivosAutenticacion = << >>
  /\ ultimaOp = OpNinguna
  /\ trazaGlobal = << >>
  /\ conexiones = {}
  /\ socks = [k \in 1..MaxSockets |-> [estado |-> "libre", dispositivoId |-> Undef]]
  /\ pasoGw = PasoNinguno
  /\ ultimoIdentificado = [d \in ClavesDispositivo |-> 0]
  /\ ultimoMensaje = MensajeNinguno
  /\ enviados = 0
  /\ cargasEnVuelo = 0
  /\ superadas = 0
  /\ construido = ConstruidoNinguno
  /\ proceso = ProcesoActivo
  /\ oyentes = [normales |-> 0, lanzan |-> 0]
  /\ devuelta = DevueltaNinguna

\* the state once the core and the gateway have started
InitBase ==
  /\ InitNucleo
  /\ listenersSistema = 1
  /\ corazon = CorazonIniciado
  /\ arranque = ArranqueHecho

\* the state after the modules are loaded: empty tables, no subscriber
InitComun ==
  /\ InitBase
  /\ dispositivosAutorizados = << >>
  /\ aceptadas = [core |-> << >>, gw |-> << >>]

\* the broker after a device list has been loaded
InitBroker ==
  /\ InitBase
  /\ llavesTabla \in TablasBroker
  /\ dispositivosAutorizados = llavesTabla
  /\ aceptadas = [core |-> llavesTabla, gw |-> << >>]

NextBroker == Suscribir \/ ProcesarEvento

SpecBroker == InitBroker /\ [][NextBroker]_vars

(***************************************************************************)
(* The device registries: registroDispositivos (core) and autenticacion    *)
(* (gateway).  A list source is the content of dispositivos.json.          *)
(***************************************************************************)
RegistroA == Registro(Str("term-1"), Str("k1"), Bool(FALSE), Undef, Undef)
\* a record with a rol and with a key the schema does not declare
RegistroB == Registro(Str("term-1"), Str("k2"), Bool(TRUE), Str("caja"), Str("x"))

EntradasValidas == {RegistroA, RegistroB}
EntradasInvalidas ==
  { [RegistroB EXCEPT !.id = Str("")],
    [RegistroB EXCEPT !.activo = Str("si")],
    [RegistroB EXCEPT !.llave = Undef],
    [RegistroB EXCEPT !.rol = Num(3)] }
Entradas == EntradasValidas \cup EntradasInvalidas

\* the lists of up to MaxDispositivos entries with at most one entry
\* outside the record shape
Listas ==
  { ls \in UNION { [1..n -> Entradas] : n \in 0..MaxDispositivos } :
      Cardinality({ i \in 1..Len(ls) : ls[i] \in EntradasInvalidas }) <= 1 }

\* what leerArchivo and JSON.parse give: no content, text that is no JSON,
\* JSON that is no array, or a list
Contenido(e, ls) == [estado |-> e, lista |-> ls]
Contenidos ==
  { Contenido("ilegible", << >>), Contenido("noJson", << >>), Contenido("noLista", << >>) }
  \cup { Contenido("lista", ls) : ls \in Listas }

\* DispositivoSchema
DispositivoSchemaAcepta(e) ==
  /\ EsString(e.id) /\ e.id.s # ""
  /\ EsString(e.llave) /\ e.llave.s # ""
  /\ e.activo.t = "bool"
  /\ e.rol.t \in {"undef", "str"}

\* z.array(DispositivoSchema).safeParse: success, and the parsed data (each
\* record reduced to the declared keys)
ListaAcepta(c) ==
  /\ c.estado = "lista"
  /\ \A i \in 1..Len(c.lista) : DispositivoSchemaAcepta(c.lista[i])

ListaParse(ls) == [i \in 1..Len(ls) |-> [ls[i] EXCEPT !.nota = Undef]]

Lanza == [tr |-> << >>, lanzo |-> TRUE]

DatoDispositivosCargados(tabla) ==
  Dato("dispositivosCargados", CrudoNulo, Str("corazon"), Undef, Undef, Undef, Num(5),
       Num(Len(tabla)))

DatoErrorCarga(componente) ==
  Dato("errorCarga", CrudoNulo, Str("corazon"), Undef, Undef, Str(componente), Num(9),
       Undef)

\* a load that empties the table before it validates the new list
TablaTrasCargarVaciando(c, tabla) ==
  IF ListaAcepta(c) THEN ListaParse(c.lista) ELSE << >>

\* a load that keeps the valid records that precede the first invalid one
TablaTrasCargarParcial(c, tabla) ==
  IF ListaAcepta(c) THEN ListaParse(c.lista)
  ELSE IF c.estado = "lista"
    THEN ListaParse(SelectSeq(c.lista, DispositivoSchemaAcepta))
    ELSE tabla

\* cargarDispositivos: the table after a load of content c
TablaTrasCargar(c, tabla) ==
  IF ListaAcepta(c) THEN ListaParse(c.lista) ELSE tabla

\* cargarListaAutorizada: the table after a load of the value c
ListaTrasCargar(c, tabla) ==
  IF ListaAcepta(c) THEN ListaParse(c.lista) ELSE tabla

\* cargarDispositivos up to its await: the read of the source is started
IniciarCarga ==
  /\ cargasEnVuelo < MaxCargas
  /\ cargasEnVuelo' = cargasEnVuelo + 1
  /\ ultimaOp' = [OpNinguna EXCEPT !.op = "iniciarCarga"]
  /\ traza' = << >>
  /\ propagado' = FALSE
  /\ trazaGlobal' = << >>
  /\ UNCHANGED <<subs, entrada, llavesTabla, dispositivosAutorizados,
                 dispositivosAutenticacion, aceptadas, devuelta, superadas>>
  /\ UNCHANGED varsGateway

\* the calls in flight that are older than a call that has assigned the
\* table, after one call resolves: sup tells whether the resolving call is
\* one of them, j how many calls that are not were started before it, and
\* escribe whether it assigns the table
SuperadasTras(sup, j, escribe) ==
  IF sup THEN superadas - 1
  ELSE IF escribe THEN superadas + j ELSE superadas

\* the reads of the source resolve in any order: the resolving call is one
\* that a later call has overtaken, or the (j+1)-th oldest of the others
CallsQueResuelven ==
  { par \in BOOLEAN \X (0..MaxCargas) :
      IF par[1] THEN superadas > 0 /\ par[2] = 0
      ELSE par[2] < cargasEnVuelo - superadas }

\* cargarDispositivos, from the point where the read of the source resolves
CargarDispositivos ==
  /\ cargasEnVuelo > 0
  /\ cargasEnVuelo' = cargasEnVuelo - 1
  /\ \E c \in Contenidos, par \in CallsQueResuelven :
   /\ superadas' = SuperadasTras(par[1], par[2], ListaAcepta(c))
   /\
    LET nueva == TablaTrasCargar(c, dispositivosAutorizados)
        r == TryCatch(IF ListaAcepta(c)
                        THEN Emit("core:dispositivosCargados",
                                  DatoDispositivosCargados(nueva))
                        ELSE Lanza,
                      Emit("core:errorDetectado", DatoErrorCarga("registroDispositivos")))
    IN /\ dispositivosAutorizados' = nueva
       \* cargarDispositivosAutorizados of validacion/llaves
       /\ llavesTabla' = IF ListaAcepta(c) THEN nueva ELSE llavesTabla
       /\ traza' = r.tr
       /\ propagado' = r.lanzo
       /\ ultimaOp' = [OpNinguna EXCEPT !.op = "cargarDispositivos",
                                        !.valido = ListaAcepta(c),
                                        !.esperada = IF ListaAcepta(c)
                                                       THEN ListaParse(c.lista)
                                                       ELSE dispositivosAutorizados,
                                        !.retorno = ListaAcepta(c)]
       /\ trazaGlobal' = << >>
       /\ aceptadas' = IF ListaAcepta(c)
                         THEN [aceptadas EXCEPT !.core = ListaParse(c.lista)]
                         ELSE aceptadas
       /\ devuelta' = DevueltaNinguna
       /\ UNCHANGED <<subs, entrada, dispositivosAutenticacion>>
       /\ UNCHANGED varsGateway

\* an emission on global.eventBus
Global(tipo, dato) == [tipo |-> tipo, dato |-> dato]

\* cargarListaAutorizada(lista)
CargarListaAutorizada ==
  \E c \in Contenidos \ {Contenido("ilegible", << >>), Contenido("noJson", << >>)} :
    /\ dispositivosAutenticacion' = ListaTrasCargar(c, dispositivosAutenticacion)
    /\ trazaGlobal' = IF ListaAcepta(c) THEN << >>
                      ELSE << Global("core:errorDetectado", DatoErrorCarga("autenticacion")) >>
    /\ ultimaOp' = [OpNinguna EXCEPT !.op = "cargarListaAutorizada",
                                     !.valido = ListaAcepta(c),
                                     !.esperada = IF ListaAcepta(c)
                                                    THEN ListaParse(c.lista)
                                                    ELSE dispositivosAutenticacion,
                                     !.retorno = ListaAcepta(c)]
    /\ traza' = << >>
    /\ propagado' = FALSE
    /\ aceptadas' = IF ListaAcepta(c)
                      THEN [aceptadas EXCEPT !.gw = ListaParse(c.lista)]
                      ELSE aceptadas
    /\ devuelta' = DevueltaNinguna
    /\ UNCHANGED <<subs, entrada, llavesTabla, dispositivosAutorizados, cargasEnVuelo, superadas>>
    /\ UNCHANGED varsGateway

\* Array.prototype.find: the first record with that id, 0 when there is none
Find(tabla, id) ==
  IF \E i \in 1..Len(tabla) : tabla[i].id = id
    THEN CHOOSE i \in 1..Len(tabla) :
           tabla[i].id = id /\ \A j \in 1..(i - 1) : tabla[j].id # id
    ELSE 0

DatoNoAutorizado(id, motivo) ==
  Dato("dispositivoNoAutorizado", CrudoNulo, id, Undef, Undef, Undef, Num(5), Str(motivo))

\* the motivo of the failure path esDispositivoAutorizado takes, "" on success
MotivoRechazo(tabla, id, llave) ==
  LET k == Find(tabla, id)
  IN IF k = 0 THEN "Dispositivo no encontrado"
     ELSE IF tabla[k].activo # Bool(TRUE) THEN "Dispositivo inactivo"
     ELSE IF tabla[k].llave # llave THEN "Llave incorrecta"
     ELSE ""

ConsultasId == {Str("term-1"), Str("term-2")}
ConsultasLlave == {Str("k1"), Str("k2")}

\* esDispositivoAutorizado(id, llave)
EsDispositivoAutorizado ==
  \E id \in ConsultasId, llave \in ConsultasLlave :
    LET motivo == MotivoRechazo(dispositivosAutenticacion, id, llave)
    IN /\ ultimaOp' = [OpNinguna EXCEPT !.op = "esDispositivoAutorizado",
                                        !.id = id, !.llave = llave,
                                        !.retorno = (motivo = "")]
       /\ trazaGlobal' = IF motivo = "" THEN << >>
                         ELSE << Global("microservidor:dispositivoNoAutorizado",
                                        DatoNoAutorizado(id, motivo)) >>
       /\ traza' = << >>
       /\ propagado' = FALSE
       /\ UNCHANGED <<subs, entrada, llavesTabla, dispositivosAutorizados,
                      dispositivosAutenticacion, cargasEnVuelo, superadas, aceptadas, devuelta>>
       /\ UNCHANGED varsGateway

\* the key validation of the broker: validarLlaveDispositivo(id, llave)
ValidarLlave ==
  \E id \in ConsultasId, llave \in ConsultasLlave :
    /\ ultimaOp' = [OpNinguna EXCEPT !.op = "validarLlaveDispositivo",
                                     !.id = id, !.llave = llave,
                                     !.retorno = ValidarLlaveDispositivo(id, llave)]
    /\ traza' = << >>
    /\ propagado' = FALSE
    /\ trazaGlobal' = << >>
    /\ UNCHANGED <<subs, entrada, llavesTabla, dispositivosAutorizados,
                   dispositivosAutenticacion, cargasEnVuelo, superadas, aceptadas, devuelta>>
    /\ UNCHANGED varsGateway

\* [...tabla]: a new array whose elements are the records of the table
\* themselves
CopiaSuperficial(tabla) == [i \in 1..Len(tabla) |-> i]

\* getDispositivos() of registroDispositivos
GetDispositivos ==
  /\ devuelta' = [registro |-> "core", refs |-> CopiaSuperficial(dispositivosAutorizados)]
  /\ ultimaOp' = [OpNinguna EXCEPT !.op = "getDispositivos"]
  /\ traza' = << >>
  /\ propagado' = FALSE
  /\ trazaGlobal' = << >>
  /\ UNCHANGED <<subs, entrada, llavesTabla, dispositivosAutorizados,
                 dispositivosAutenticacion, cargasEnVuelo, superadas, aceptadas>>
  /\ UNCHANGED varsGateway

\* getDispositivosAutorizados() of autenticacion
GetDispositivosAutorizados ==
  /\ devuelta' = [registro |-> "gw", refs |-> CopiaSuperficial(dispositivosAutenticacion)]
  /\ ultimaOp' = [OpNinguna EXCEPT !.op = "getDispositivosAutorizados"]
  /\ traza' = << >>
  /\ propagado' = FALSE
  /\ trazaGlobal' = << >>
  /\ UNCHANGED <<subs, entrada, llavesTabla, dispositivosAutorizados,
                 dispositivosAutenticacion, cargasEnVuelo, superadas, aceptadas>>
  /\ UNCHANGED varsGateway

\* the table of a registry after the caller assigns valor to the field
\* campo of element i of the array it holds: the element is the record of
\* the table
TablaTrasAsignar(tabla, i, campo, valor) ==
  IF devuelta.refs[i] = 0 THEN tabla
  ELSE IF campo = "activo" THEN [tabla EXCEPT ![devuelta.refs[i]].activo = valor]
  ELSE [tabla EXCEPT ![devuelta.refs[i]].llave = valor]

\* the caller changes the array it was handed: removes its last element,
\* appends a record of its own, or assigns to a field of an element
MutarDevuelta ==
  /\ devuelta.registro # "ninguno"
  /\ \/ /\ devuelta.refs # << >>
        /\ devuelta' = [devuelta EXCEPT !.refs = SubSeq(@, 1, Len(@) - 1)]
        /\ UNCHANGED <<dispositivosAutorizados, dispositivosAutenticacion>>
     \/ /\ Len(devuelta.refs) < MaxDispositivos
        /\ devuelta' = [devuelta EXCEPT !.refs = Append(@, 0)]
        /\ UNCHANGED <<dispositivosAutorizados, dispositivosAutenticacion>>
     \/ \E i \in 1..Len(devuelta.refs) :
        \E asignacion \in {<<"activo", Bool(TRUE)>>, <<"activo", Bool(FALSE)>>,
                            <<"llave", Str("k1")>>, <<"llave", Str("k2")>>} :
          /\ UNCHANGED devuelta
          /\ dispositivosAutorizados' =
               IF devuelta.registro = "core"
                 THEN TablaTrasAsignar(dispositivosAutorizados, i,
                                       asignacion[1], asignacion[2])
                 ELSE dispositivosAutorizados
          /\ dispositivosAutenticacion' =
               IF devuelta.registro = "gw"
                 THEN TablaTrasAsignar(dispositivosAutenticacion, i,
                                       asignacion[1], asignacion[2])
                 ELSE dispositivosAutenticacion
  /\ ultimaOp' = [OpNinguna EXCEPT !.op = "mutarDevuelta"]
  /\ traza' = << >>
  /\ propagado' = FALSE
  /\ trazaGlobal' = << >>
  /\ UNCHANGED <<subs, entrada, llavesTabla, cargasEnVuelo, superadas, aceptadas>>
  /\ UNCHANGED varsGateway

InitRegistro ==
  /\ InitComun
  /\ llavesTabla = << >>

NextRegistro ==
  \/ IniciarCarga
  \/ CargarDispositivos
  \/ CargarListaAutorizada
  \/ EsDispositivoAutorizado
  \/ ValidarLlave

SpecRegistro == InitRegistro /\ [][NextRegistro]_vars

(***************************************************************************)
(* The gateway: ws (connections) and manejadorEventos (global.eventBus).   *)
(***************************************************************************)
\* Map: has, get (0 when absent), set, delete
MapHas(m, k) == \E e \in m : e.clave = k
MapGet(m, k) == IF MapHas(m, k) THEN (CHOOSE e \in m : e.clave = k).socket ELSE 0
MapDelete(m, k) == { e \in m : e.clave # k }
MapSet(m, k, v) == MapDelete(m, k) \cup {[clave |-> k, socket |-> v]}

\* the temporary id of the connection of socket k
ClaveTemporal(k) == [t |-> "temp", s |-> "", n |-> k]

\* JavaScript truthiness
Truthy(v) ==
  \/ v.t = "str" /\ v.s # ""
  \/ v.t = "num" /\ (v.n # 0 \/ v.s # "")
  \/ v.t = "obj"
  \/ v = Bool(TRUE)

MensajesGw ==
  { Mensaje(FALSE, FALSE, CrudoNulo), Mensaje(TRUE, TRUE, CrudoNulo) }
  \cup { Mensaje(TRUE, FALSE, c) :
           c \in { CrudoBase,
                   [CrudoBase EXCEPT !.dispositivoId = Str("term-2")],
                   [CrudoBase EXCEPT !.dispositivoId = Str("")],
                   SinContexto(CrudoBase), SinMeta(CrudoBase), CrudoNoObjeto } }

DatoEntrante(m) ==
  Dato(IF m.nulo THEN "null" ELSE "entrante", m.datos, m.datos.dispositivoId,
       Undef, Undef, Undef, Undef, m.datos.payload)

DatoConexionEstablecida(id) ==
  Dato("conexionEstablecida", CrudoNulo, id, Undef, Undef, Undef, Num(5), Undef)

DatoErrorConexion(id) ==
  Dato("errorConexion", CrudoNulo, id, Undef, Undef, Undef, Num(5), Undef)

\* a core:llaveRevocada event as the broker builds it, {dispositivo, motivo},
\* and one that carries payload.dispositivoId
DatoRevocacionConPayload(id) ==
  Dato("llaveRevocada", CrudoNulo, id, Undef, Undef, Undef, Undef, Obj("dispositivoId"))

DatoRevocacionBroker(id) ==
  Dato("llaveRevocada", CrudoNulo, id, Undef, Undef, Undef, Undef, Undef)

DatoCerrarConexion(id) ==
  Dato("cerrarConexion", CrudoNulo, id, Undef, Undef, Undef, Undef,
       Str("Llave revocada por el sistema"))

\* eventBus.emit on global.eventBus with the listeners of manejadorEventos:
\* the emissions it causes, and whether a listener threw
EmitGlobal(tipo, dato) ==
  LET e == << Global(tipo, dato) >>
  IN CASE tipo = "microservidor:eventoEntrante" ->
            IF dato.forma = "null" THEN [tr |-> e, lanzo |-> TRUE]
            ELSE IF dato.cuerpo.meta /\ Truthy(dato.cuerpo.tipo)
              THEN [tr |-> e \o << Global("core:procesarEvento", dato) >>, lanzo |-> FALSE]
              ELSE [tr |-> e, lanzo |-> FALSE]
       [] tipo = "core:llaveRevocada" ->
            IF dato.payload.t # "obj" THEN [tr |-> e, lanzo |-> TRUE]
            ELSE [tr |-> e \o << Global("microservidor:cerrarConexion",
                                        DatoCerrarConexion(dato.dispositivo)) >>,
                  lanzo |-> FALSE]
       [] tipo = "core:eventoDistribuido" ->
            [tr |-> e, lanzo |-> ~dato.cuerpo.meta]
       [] tipo = "microservidor:errorConexion" ->
            [tr |-> e, lanzo |-> oyentes.lanzan > 0]
       [] OTHER -> [tr |-> e, lanzo |-> FALSE]

\* process.on('uncaughtException') of configurarCierreControlado: an
\* exception that leaves an event handler starts cerrarServidor, which ends
\* in process.exit(0)
ProcesoTras(lanzo) ==
  IF lanzo /\ proceso.estado = "activo"
    THEN [estado |-> "cerrando", causa |-> "uncaughtException"]
    ELSE proceso

\* cerrarServidor announces the shutdown on global.eventBus
DatoApagando ==
  Dato("apagando", CrudoNulo, Undef, Undef, Undef, Undef, Undef, Undef)

EmisionesCierre(lanzo) ==
  IF lanzo THEN << Global("microservidor:apagando", DatoApagando) >> ELSE << >>

\* servidor.on('connection'): the next socket, stored under a temporary id
Conectar ==
  \E k \in 1..MaxSockets :
    /\ proceso.estado # "terminado"
    /\ socks[k].estado = "libre"
    /\ \A j \in 1..(k - 1) : socks[j].estado # "libre"
    /\ socks' = [socks EXCEPT ![k].estado = "open"]
    /\ conexiones' = MapSet(conexiones, ClaveTemporal(k), k)
    /\ pasoGw' = PasoGw("conectar", k, ClaveTemporal(k), {}, FALSE)
    /\ trazaGlobal' = << >>
    /\ UNCHANGED ultimoIdentificado
    /\ ultimoMensaje' = MensajeNinguno
    /\ enviados' = 0
    /\ UNCHANGED <<subs, entrada, traza, propagado>>
    /\ UNCHANGED varsRegistro
    /\ UNCHANGED varsProceso

\* the first message with a dispositivoId keeps an entry another socket
\* already holds under that id
ConexionesTrasIdentificarSinPisar(m, k, id) ==
  IF MapHas(m, id) THEN MapDelete(m, ClaveTemporal(k))
  ELSE MapSet(MapDelete(m, ClaveTemporal(k)), id, k)

\* the identification stores the socket under the device id and leaves its
\* temporary entry in the map
ConexionesTrasIdentificarSinBorrar(m, k, id) == MapSet(m, id, k)

\* conexiones.delete(conexionId); conexiones.set(dispositivoId, socket)
ConexionesTrasIdentificar(m, k, id) == MapSet(MapDelete(m, ClaveTemporal(k)), id, k)

\* the message identifies the connection whether or not it already has a
\* dispositivoId
IdentificaSiempre(k, m) ==
  /\ m.json /\ ~m.nulo
  /\ m.datos.contexto /\ Truthy(m.datos.dispositivoId)

\* whether the message identifies the connection of socket k
Identifica(k, m) ==
  /\ m.json /\ ~m.nulo
  /\ socks[k].dispositivoId = Undef
  /\ m.datos.contexto /\ Truthy(m.datos.dispositivoId)

\* the emissions of socket.on('message') for message m on socket k
\* a message handler that publishes the ingress event and leaves the
\* forward to the broker for a later turn of the event loop
EmisionesMensajeDiferido(k, m) ==
  IF m.json /\ ~m.nulo
    THEN [tr |-> << Global("microservidor:eventoEntrante", DatoEntrante(m)) >>,
          lanzo |-> FALSE]
    ELSE TryCatch(Lanza, EmitGlobal("microservidor:errorConexion",
                                    DatoErrorConexion(socks[k].dispositivoId)))

EmisionesMensaje(k, m) ==
  LET id == IF socks[k].dispositivoId = Undef THEN ClaveTemporal(k)
            ELSE socks[k].dispositivoId
      cuerpo ==
        IF ~m.json THEN Lanza
        ELSE IF m.nulo /\ socks[k].dispositivoId = Undef THEN Lanza
        ELSE Luego(IF Identifica(k, m)
                     THEN EmitGlobal("microservidor:conexionEstablecida",
                                     DatoConexionEstablecida(m.datos.dispositivoId))
                     ELSE Nada,
                   EmitGlobal("microservidor:eventoEntrante", DatoEntrante(m)))
  IN TryCatch(cuerpo,
              EmitGlobal("microservidor:errorConexion",
                         DatoErrorConexion(IF Identifica(k, m)
                                             THEN m.datos.dispositivoId ELSE id)))

\* a message handler that answers an undecodable frame on its socket
EscritosMensajeConAviso(k, m) == IF ~m.json THEN {k} ELSE {}

\* the sockets the message handler writes on while it handles frame m of
\* socket k: the handler and the listeners it reaches call no send
EscritosMensaje(k, m) == {}

\* socket.on('message')
RecibirMensaje ==
  \E k \in 1..MaxSockets, m \in MensajesGw :
    /\ proceso.estado # "terminado"
    /\ socks[k].estado = "open"
    /\ IF Identifica(k, m)
         THEN /\ socks' = [socks EXCEPT ![k].dispositivoId = m.datos.dispositivoId]
              /\ conexiones' = ConexionesTrasIdentificar(conexiones, k, m.datos.dispositivoId)
              /\ ultimoIdentificado' =
                   [ultimoIdentificado EXCEPT ![m.datos.dispositivoId] = k]
              /\ pasoGw' = PasoGw("identificar", k, m.datos.dispositivoId,
                              EscritosMensaje(k, m), FALSE)
         ELSE /\ UNCHANGED <<socks, conexiones, ultimoIdentificado>>
              /\ pasoGw' = PasoGw("mensaje", k, socks[k].dispositivoId,
                              EscritosMensaje(k, m), FALSE)
    /\ trazaGlobal' = EmisionesMensaje(k, m).tr
                      \o EmisionesCierre(EmisionesMensaje(k, m).lanzo)
    /\ ultimoMensaje' = m
    /\ enviados' = 0
    /\ proceso' = ProcesoTras(EmisionesMensaje(k, m).lanzo)
    /\ UNCHANGED <<oyentes, listenersSistema>>
    /\ UNCHANGED varsArranque
    /\ UNCHANGED <<subs, entrada, traza, propagado>>
    /\ UNCHANGED varsRegistro

\* the transport of socket k closes: readyState leaves OPEN, its close
\* event is pending
CerrarTransporte ==
  \E k \in 1..MaxSockets :
    /\ proceso.estado # "terminado"
    /\ socks[k].estado = "open"
    /\ socks' = [socks EXCEPT ![k].estado = "cerrando"]
    /\ pasoGw' = PasoGw("cerrarTransporte", k, socks[k].dispositivoId, {}, FALSE)
    /\ trazaGlobal' = << >>
    /\ UNCHANGED <<conexiones, ultimoIdentificado>>
    /\ ultimoMensaje' = MensajeNinguno
    /\ enviados' = 0
    /\ UNCHANGED <<subs, entrada, traza, propagado>>
    /\ UNCHANGED varsRegistro
    /\ UNCHANGED varsProceso

\* socket.on('close')
ManejarClose ==
  \E k \in 1..MaxSockets :
    /\ proceso.estado # "terminado"
    /\ socks[k].estado = "cerrando"
    /\ socks' = [socks EXCEPT ![k].estado = "cerrado"]
    /\ conexiones' = IF socks[k].dispositivoId # Undef
                       THEN MapDelete(conexiones, socks[k].dispositivoId)
                       ELSE MapDelete(conexiones, ClaveTemporal(k))
    /\ pasoGw' = PasoGw("close", k, socks[k].dispositivoId, {}, FALSE)
    /\ trazaGlobal' = << >>
    /\ UNCHANGED ultimoIdentificado
    /\ ultimoMensaje' = MensajeNinguno
    /\ enviados' = 0
    /\ UNCHANGED <<subs, entrada, traza, propagado>>
    /\ UNCHANGED varsRegistro
    /\ UNCHANGED varsProceso

\* socket.on('error'): the handler publishes microservidor:errorConexion and
\* nothing else; the socket the error was reported on is being closed by
\* the transport, its close event is pending
ManejarError ==
  \E k \in 1..MaxSockets :
    /\ proceso.estado # "terminado"
    /\ socks[k].estado = "open"
    /\ socks' = [socks EXCEPT ![k].estado = "cerrando"]
    /\ trazaGlobal' =
         EmitGlobal("microservidor:errorConexion",
                    DatoErrorConexion(IF socks[k].dispositivoId = Undef
                                        THEN ClaveTemporal(k)
                                        ELSE socks[k].dispositivoId)).tr
         \o EmisionesCierre(oyentes.lanzan > 0)
    /\ pasoGw' = PasoGw("error", k, socks[k].dispositivoId, {}, FALSE)
    /\ proceso' = ProcesoTras(oyentes.lanzan > 0)
    /\ UNCHANGED <<oyentes, listenersSistema>>
    /\ UNCHANGED varsArranque
    /\ UNCHANGED <<conexiones, ultimoIdentificado>>
    /\ ultimoMensaje' = MensajeNinguno
    /\ enviados' = 0
    /\ UNCHANGED <<subs, entrada, traza, propagado>>
    /\ UNCHANGED varsRegistro

\* conexion.readyState === WebSocket.OPEN
EstaAbierto(k) == socks[k].estado = "open"

\* the send goes out whatever the readyState of the mapped socket is
EscritosADispositivoSinEstado(id) ==
  IF MapHas(conexiones, id) THEN {MapGet(conexiones, id)} ELSE {}

\* the sockets enviarMensajeADispositivo(id, mensaje) writes on
EscritosADispositivo(id) ==
  LET k == MapGet(conexiones, id)
  IN IF k # 0 /\ EstaAbierto(k) THEN {k} ELSE {}

\* the entries enviarMensajeATodos(mensaje) writes for
EntradasAbiertas == { e \in conexiones : EstaAbierto(e.socket) }

\* enviarMensajeADispositivo(dispositivoId, mensaje)
EnviarMensajeADispositivo ==
  \E id \in ClavesDispositivo :
    LET escritos == EscritosADispositivo(id)
    IN /\ pasoGw' = PasoGw("enviar", MapGet(conexiones, id), id, escritos, escritos # {})
       /\ trazaGlobal' = << >>
       /\ ultimoMensaje' = MensajeNinguno
       /\ enviados' = 0
       /\ UNCHANGED <<conexiones, socks, ultimoIdentificado>>
       /\ UNCHANGED <<subs, entrada, traza, propagado>>
       /\ UNCHANGED varsRegistro
       /\ UNCHANGED varsProceso

\* enviarMensajeATodos(mensaje)
EnviarMensajeATodos ==
  /\ pasoGw' = PasoGw("enviarATodos", 0, Undef,
                      { e.socket : e \in EntradasAbiertas }, EntradasAbiertas # {})
  /\ enviados' = Cardinality(EntradasAbiertas)
  /\ trazaGlobal' = << >>
  /\ ultimoMensaje' = MensajeNinguno
  /\ UNCHANGED <<conexiones, socks, ultimoIdentificado>>
  /\ UNCHANGED <<subs, entrada, traza, propagado>>
  /\ UNCHANGED varsRegistro
  /\ UNCHANGED varsProceso

\* the events that reach the core:eventoDistribuido listener: with or
\* without meta, with or without a destinatario
DistribuidosGw ==
  { SinMeta(CrudoBase) }
  \cup { [CrudoBase EXCEPT !.destinatario = d] :
            d \in {Undef, Str(""), Str("term-1"), Str("term-2")} }

DatoDistribuido(c) ==
  Dato("distribuido", c, c.destinatario, Undef, Undef, Undef, Undef, c.payload)

\* a core:eventoDistribuido event reaches global.eventBus
EventoDistribuido ==
  \E c \in DistribuidosGw :
    LET r == EmitGlobal("core:eventoDistribuido", DatoDistribuido(c))
        dirigido == ~r.lanzo /\ Truthy(c.destinatario)
        aTodos == ~r.lanzo /\ ~Truthy(c.destinatario)
        escritos == IF dirigido THEN EscritosADispositivo(c.destinatario)
                    ELSE IF aTodos THEN { e.socket : e \in EntradasAbiertas }
                    ELSE {}
    IN /\ trazaGlobal' = r.tr
       /\ pasoGw' = PasoGw("eventoDistribuido", 0, c.destinatario, escritos, r.lanzo)
       /\ enviados' = IF aTodos THEN Cardinality(EntradasAbiertas) ELSE 0
       /\ ultimoMensaje' = MensajeNinguno
       /\ UNCHANGED <<conexiones, socks, ultimoIdentificado>>
       /\ UNCHANGED <<subs, entrada, traza, propagado>>
       /\ UNCHANGED varsRegistro
       /\ UNCHANGED varsProceso

\* a core:llaveRevocada event reaches global.eventBus
LlaveRevocada ==
  \E id \in ClavesDispositivo :
  \E dato \in {DatoRevocacionConPayload(id), DatoRevocacionBroker(id)} :
    LET r == EmitGlobal("core:llaveRevocada", dato)
        k == MapGet(conexiones, id)
    IN /\ trazaGlobal' = r.tr
       /\ pasoGw' = PasoGw("revocar", IF k # 0 /\ socks[k].estado = "open" THEN k ELSE 0,
                           id, {}, r.lanzo)
       /\ ultimoMensaje' = MensajeNinguno
       /\ enviados' = 0
       /\ entrada' = CrudoNulo
       /\ traza' = << >>
       /\ propagado' = FALSE
       /\ UNCHANGED <<conexiones, socks, ultimoIdentificado, subs>>
       /\ UNCHANGED varsRegistro
       /\ UNCHANGED varsProceso

\* eventBus.listenerCount('microservidor:errorConexion'): the listener of
\* manejadorEventos and the handlers added through suscribirseEvento
ListenerCount == 1 + oyentes.normales + oyentes.lanzan

\* suscribirseEvento('microservidor:errorConexion', callback), with a
\* callback that returns or one that throws: eventBus.on adds it
SuscribirseEvento ==
  \E lanza \in BOOLEAN :
    /\ proceso.estado # "terminado"
    /\ ListenerCount < MaxListeners + MaxExceso
    /\ oyentes' = IF lanza THEN [oyentes EXCEPT !.lanzan = @ + 1]
                           ELSE [oyentes EXCEPT !.normales = @ + 1]
    /\ pasoGw' = PasoGw("suscribirse", 0, Undef, {}, FALSE)
    /\ trazaGlobal' = << >>
    /\ ultimoMensaje' = MensajeNinguno
    /\ enviados' = 0
    /\ UNCHANGED <<conexiones, socks, ultimoIdentificado, proceso, listenersSistema>>
    /\ UNCHANGED varsArranque
    /\ UNCHANGED <<subs, entrada, traza, propagado>>
    /\ UNCHANGED varsRegistro

\* desuscribirseEvento('microservidor:errorConexion', callback) of a
\* callback that was added: eventBus.off removes it
DesuscribirseEvento ==
  \E lanza \in BOOLEAN :
    /\ proceso.estado # "terminado"
    /\ IF lanza THEN oyentes.lanzan > 0 ELSE oyentes.normales > 0
    /\ oyentes' = IF lanza THEN [oyentes EXCEPT !.lanzan = @ - 1]
                           ELSE [oyentes EXCEPT !.normales = @ - 1]
    /\ pasoGw' = PasoGw("desuscribirse", 0, Undef, {}, FALSE)
    /\ trazaGlobal' = << >>
    /\ ultimoMensaje' = MensajeNinguno
    /\ enviados' = 0
    /\ UNCHANGED <<conexiones, socks, ultimoIdentificado, proceso, listenersSistema>>
    /\ UNCHANGED varsArranque
    /\ UNCHANGED <<subs, entrada, traza, propagado>>
    /\ UNCHANGED varsRegistro

\* reiniciarCorazon() run to its end with no other call in between:
\* corazonIniciado is cleared, iniciarCorazon runs again and with it
\* registrarListenersDelSistema, which adds one more handler to each of
\* core:reiniciarSistema, core:modoOffline, core:ping and core:logGenerado
ReiniciarCorazon ==
  /\ proceso.estado # "terminado"
  /\ listenersSistema < MaxListeners + MaxExceso
  /\ listenersSistema' = listenersSistema + 1
  /\ pasoGw' = PasoGw("reiniciarCorazon", 0, Undef, {}, FALSE)
  /\ trazaGlobal' = << >>
  /\ ultimoMensaje' = MensajeNinguno
  /\ enviados' = 0
  /\ corazon' = [corazon EXCEPT !.iniciado = TRUE, !.listos = 1]
  /\ UNCHANGED <<conexiones, socks, ultimoIdentificado, proceso, oyentes>>
  /\ UNCHANGED <<construido, arranque>>
  /\ UNCHANGED <<subs, entrada, traza, propagado>>
  /\ UNCHANGED varsRegistro

\* process.on('SIGINT' | 'SIGTERM'): cerrarServidor starts
RecibirSenal ==
  /\ proceso.estado = "activo"
  /\ proceso' = [estado |-> "cerrando", causa |-> "senal"]
  /\ pasoGw' = PasoGw("senal", 0, Undef, {}, FALSE)
  /\ trazaGlobal' = EmisionesCierre(TRUE)
  /\ ultimoMensaje' = MensajeNinguno
  /\ enviados' = 0
  /\ UNCHANGED <<conexiones, socks, ultimoIdentificado, oyentes, listenersSistema>>
  /\ UNCHANGED varsArranque
  /\ UNCHANGED <<subs, entrada, traza, propagado>>
  /\ UNCHANGED varsRegistro

\* cerrarServidor after its wait: process.exit(0)
SalirProceso ==
  /\ proceso.estado = "cerrando"
  /\ proceso' = [proceso EXCEPT !.estado = "terminado"]
  /\ pasoGw' = PasoGw("exit", 0, Undef, {}, FALSE)
  /\ trazaGlobal' = << >>
  /\ ultimoMensaje' = MensajeNinguno
  /\ enviados' = 0
  /\ UNCHANGED <<conexiones, socks, ultimoIdentificado, oyentes, listenersSistema>>
  /\ UNCHANGED varsArranque
  /\ UNCHANGED <<subs, entrada, traza, propagado>>
  /\ UNCHANGED varsRegistro

InitGateway ==
  /\ InitComun
  /\ llavesTabla = << >>

NextGateway ==
  \/ Conectar
  \/ RecibirMensaje
  \/ CerrarTransporte
  \/ ManejarClose
  \/ ManejarError
  \/ EnviarMensajeADispositivo
  \/ EnviarMensajeATodos
  \/ EventoDistribuido
  \/ LlaveRevocada

SpecGateway == InitGateway /\ [][NextGateway]_vars

(***************************************************************************)
(* The start of the core.                                                  *)
(***************************************************************************)
\* the iniciarCorazon calls that may be suspended at an await at one time
MaxInicios == 2

\* the module is loaded and iniciarCorazon has not been called
CorazonSinIniciar == [iniciado |-> FALSE, enCurso |-> 0, listos |-> 0]

\* an emission on the core's EventBus that n handlers receive
Emision(tipo, n) ==
  [tipo |-> tipo, dato |-> Dato(tipo, CrudoNulo, Str("corazon"), Undef, Undef, Undef,
                                Num(5), Undef),
   llamados |-> n, orden |-> [h \in 1..n |-> h]]

\* iniciarCorazon() up to its first await: the guard on corazonIniciado,
\* then registrarListenersDelSistema and the start of cargarConfig
IniciarCorazon ==
  /\ IF corazon.iniciado
       THEN UNCHANGED <<corazon, listenersSistema>>
       ELSE /\ corazon.enCurso < MaxInicios
            /\ listenersSistema < MaxListeners + MaxExceso
            /\ listenersSistema' = listenersSistema + 1
            /\ corazon' = [corazon EXCEPT !.enCurso = @ + 1]
  /\ pasoGw' = PasoGw("iniciarCorazon", 0, Undef, {}, FALSE)
  /\ traza' = << >>
  /\ UNCHANGED <<construido, arranque, trazaGlobal>>
  /\ UNCHANGED <<subs, entrada, propagado>>
  /\ UNCHANGED <<conexiones, socks, ultimoIdentificado, ultimoMensaje, enviados,
                 proceso, oyentes>>
  /\ UNCHANGED varsRegistro

\* iniciarCorazon() from the point where its awaits have settled: either
\* corazonIniciado = true and core:listo, or the catch with
\* core:errorDetectado and the rethrow
TerminarInicioCorazon ==
  /\ corazon.enCurso > 0
  /\ \E ok \in BOOLEAN :
       /\ corazon' = IF ok THEN [iniciado |-> TRUE, enCurso |-> corazon.enCurso - 1,
                                 listos |-> corazon.listos + 1]
                     ELSE [corazon EXCEPT !.enCurso = @ - 1]
       /\ traza' = IF ok THEN << Emision("core:listo", 0) >>
                   ELSE << Emision("core:errorDetectado", 0) >>
       /\ pasoGw' = PasoGw("terminarInicio", 0, Undef, {}, ~ok)
  /\ UNCHANGED <<construido, arranque, trazaGlobal, listenersSistema>>
  /\ UNCHANGED <<subs, entrada, propagado>>
  /\ UNCHANGED <<conexiones, socks, ultimoIdentificado, ultimoMensaje, enviados,
                 proceso, oyentes>>
  /\ UNCHANGED varsRegistro

\* EventBus.emit('core:ping', evento): every handler registered for
\* core:ping answers with one core:pong
EmitirPing ==
  /\ traza' = << Emision("core:ping", listenersSistema) >>
               \o [h \in 1..listenersSistema |-> Emision("core:pong", 0)]
  /\ pasoGw' = PasoGw("ping", 0, Undef, {}, FALSE)
  /\ UNCHANGED <<construido, arranque, corazon, trazaGlobal, listenersSistema>>
  /\ UNCHANGED <<subs, entrada, propagado>>
  /\ UNCHANGED <<conexiones, socks, ultimoIdentificado, ultimoMensaje, enviados,
                 proceso, oyentes>>
  /\ UNCHANGED varsRegistro

\* EventBus.emit('core:reiniciarSistema', evento): every handler registered
\* for it calls reiniciarCorazon, which runs up to the first await of its
\* iniciarCorazon: corazonIniciado is cleared, core:reiniciando is emitted
\* and the system listeners are registered once more
EmitirReiniciarSistema ==
  /\ corazon.enCurso + listenersSistema <= MaxInicios
  /\ listenersSistema + listenersSistema <= MaxListeners + MaxExceso
  /\ listenersSistema' = listenersSistema + listenersSistema
  /\ corazon' = IF listenersSistema = 0 THEN corazon
                ELSE [iniciado |-> FALSE, enCurso |-> corazon.enCurso + listenersSistema,
                      listos |-> 0]
  /\ traza' = << Emision("core:reiniciarSistema", listenersSistema) >>
               \o [h \in 1..listenersSistema |-> Emision("core:reiniciando", 0)]
  /\ pasoGw' = PasoGw("reiniciarSistema", 0, Undef, {}, FALSE)
  /\ UNCHANGED <<construido, arranque, trazaGlobal>>
  /\ UNCHANGED <<subs, entrada, propagado>>
  /\ UNCHANGED <<conexiones, socks, ultimoIdentificado, ultimoMensaje, enviados,
                 proceso, oyentes>>
  /\ UNCHANGED varsRegistro

InitCorazon ==
  /\ InitNucleo
  /\ listenersSistema = 0
  /\ corazon = CorazonSinIniciar
  /\ arranque = ArranqueHecho
  /\ llavesTabla = << >>
  /\ dispositivosAutorizados = << >>
  /\ aceptadas = [core |-> << >>, gw |-> << >>]

NextCorazon ==
  \/ IniciarCorazon
  \/ TerminarInicioCorazon
  \/ ReiniciarCorazon
  \/ EmitirPing
  \/ EmitirReiniciarSistema

SpecCorazon == InitCorazon /\ [][NextCorazon]_vars

(***************************************************************************)
(* The start of the gateway: iniciarMicroservidor.                         *)
(***************************************************************************)
\* index.ts is loaded and iniciarMicroservidor has not run: the environment
\* has not yet shown whether config/config.json can be read and passes
\* ConfigSchema, nor whether the port can be bound
ArranqueSinIniciar ==
  [fase |-> "sinIniciar", configLegible |-> FALSE, puertoLibre |-> FALSE,
   pasos |-> << >>]

\* validarConfiguracion of validacion/autenticacion: the device list is not
\* empty and holds an active device
ValidarConfiguracion(tabla) ==
  /\ Len(tabla) # 0
  /\ \E i \in 1..Len(tabla) : Truthy(tabla[i].activo)

\* the payload of the event manejarErrorInicio builds: critico is true
DatoErrorInicio ==
  Dato("errorInicio", CrudoNulo, Undef, Undef, Undef, Undef, Num(5), Obj("critico"))

DatoListo ==
  Dato("listo", CrudoNulo, Undef, Undef, Undef, Undef, Num(5), Obj("puerto"))

DatoConfigCargada ==
  Dato("configCargada", CrudoNulo, Undef, Undef, Undef, Undef, Num(5), Obj("puerto"))

\* manejarErrorInicio: microservidor:errorConexion with critico, which the
\* listener of manejadorEventos (once iniciarManejadorEventos has run)
\* forwards as core:errorDetectado, then core:errorDetectado; after them
\* process.exit(1)
EmisionesErrorInicio(conListeners) ==
  << Global("microservidor:errorConexion", DatoErrorInicio) >>
  \o (IF conListeners
        THEN << Global("core:errorDetectado", DatoErrorCarga("microservidor")) >>
        ELSE << >>)
  \o << Global("core:errorDetectado", DatoErrorInicio) >>

ProcesoSalida1 == [estado |-> "terminado", causa |-> "exit1"]

\* iniciarMicroservidor() up to await cargarConfig(): the read of
\* config/config.json is pending
IniciarMicroservidor ==
  /\ arranque.fase = "sinIniciar"
  /\ \E legible, libre \in BOOLEAN :
       arranque' = [fase |-> "cargandoConfig", configLegible |-> legible,
                    puertoLibre |-> libre, pasos |-> << >>]
  /\ trazaGlobal' = << >>
  /\ pasoGw' = PasoGw("iniciarMicroservidor", 0, Undef, {}, FALSE)
  /\ UNCHANGED <<construido, corazon>>
  /\ UNCHANGED <<conexiones, socks, ultimoIdentificado, ultimoMensaje, enviados,
                 proceso, oyentes, listenersSistema>>
  /\ UNCHANGED varsBroker
  /\ UNCHANGED varsRegistro

\* cargarConfig settles (it catches every failure and falls back to
\* CONFIG_DEFAULT), then validarConfiguracion, iniciarManejadorEventos and
\* the creation of the WebSocketServer; a failed check ends in
\* manejarErrorInicio
ConfigCargada ==
  /\ arranque.fase = "cargandoConfig"
  /\ LET carga == IF arranque.configLegible
                    THEN << Global("microservidor:configCargada", DatoConfigCargada) >>
                    ELSE << Global("core:errorDetectado", DatoErrorCarga("config")) >>
         valida == ValidarConfiguracion(dispositivosAutenticacion)
     IN IF valida
          THEN /\ arranque' = [arranque EXCEPT
                                 !.fase = "abriendoPuerto",
                                 !.pasos = <<"config", "validacion", "listeners">>]
               /\ trazaGlobal' = carga
               /\ UNCHANGED proceso
          ELSE /\ arranque' = [arranque EXCEPT !.fase = "fallido",
                                               !.pasos = <<"config">>]
               /\ trazaGlobal' =
                    carga
                    \o << Global("core:errorDetectado", DatoErrorCarga("autenticacion")) >>
                    \o EmisionesErrorInicio(FALSE)
               /\ proceso' = ProcesoSalida1
  /\ pasoGw' = PasoGw("configCargada", 0, Undef, {}, FALSE)
  /\ UNCHANGED <<construido, corazon>>
  /\ UNCHANGED <<conexiones, socks, ultimoIdentificado, ultimoMensaje, enviados,
                 oyentes, listenersSistema>>
  /\ UNCHANGED varsBroker
  /\ UNCHANGED varsRegistro

\* the WebSocketServer reports 'listening' or 'error': servidorIniciado and
\* microservidor:listo, or manejarErrorInicio
PuertoResuelto ==
  /\ arranque.fase = "abriendoPuerto"
  /\ IF arranque.puertoLibre
       THEN /\ arranque' = [arranque EXCEPT
                              !.fase = "listo",
                              !.pasos = @ \o <<"websocket", "listo">>]
            /\ trazaGlobal' = << Global("microservidor:listo", DatoListo) >>
            /\ UNCHANGED proceso
       ELSE /\ arranque' = [arranque EXCEPT !.fase = "fallido"]
            /\ trazaGlobal' = EmisionesErrorInicio(TRUE)
            /\ proceso' = ProcesoSalida1
  /\ pasoGw' = PasoGw("puertoResuelto", 0, Undef, {}, FALSE)
  /\ UNCHANGED <<construido, corazon>>
  /\ UNCHANGED <<conexiones, socks, ultimoIdentificado, ultimoMensaje, enviados,
                 oyentes, listenersSistema>>
  /\ UNCHANGED varsBroker
  /\ UNCHANGED varsRegistro

InitArranque ==
  /\ InitNucleo
  /\ listenersSistema = 1
  /\ corazon = CorazonIniciado
  /\ arranque = ArranqueSinIniciar
  /\ llavesTabla = << >>
  /\ dispositivosAutorizados = << >>
  /\ aceptadas = [core |-> << >>, gw |-> << >>]

NextArranque ==
  \/ IniciarMicroservidor
  \/ ConfigCargada
  \/ PuertoResuelto
  \/ (proceso.estado # "terminado" /\ CargarListaAutorizada)

SpecArranque == InitArranque /\ [][NextArranque]_vars

\* the event loop runs every callback that is ready: the call at the end of
\* index.ts, the settlement of the file read and the outcome of the bind
SpecArranqueJusto ==
  /\ SpecArranque
  /\ WF_vars(IniciarMicroservidor)
  /\ WF_vars(ConfigCargada)
  /\ WF_vars(PuertoResuelto)

(***************************************************************************)
(* The envelope builders.                                                  *)
(***************************************************************************)
\* the strings generarUUID() / crypto.randomUUID() can return
GenerarUUID == CadenasUuid

\* the strings timestampActual() / new Date().toISOString() can return
TimestampActual == CadenasFechaIso

\* a default parameter value applies when the argument is undefined
PorDefecto(v, d) == IF v = Undef THEN d ELSE v

\* crearEventoBase(tipo, payload, origen = 'corazon', prioridad = 5,
\* dispositivoId = 'corazon'), with id and ts the values generarUUID and
\* timestampActual return
CrearEventoBase(id, ts, tipo, payload, origen, prioridad, dispositivoId) ==
  Crudo(Str(id), Str(ts), tipo, PorDefecto(origen, Str("corazon")),
        PorDefecto(prioridad, Num(5)), payload,
        PorDefecto(dispositivoId, Str("corazon")), Undef)

\* crearEvento(params): prioridad is params.meta.prioridad || 1
CrearEvento(id, ts, params) ==
  Crudo(Str(id), Str(ts), params.tipo, params.origen,
        IF Truthy(params.prioridad) THEN params.prioridad ELSE Num(1),
        params.payload, params.dispositivoId, Undef)

\* the numbers a caller passes as prioridad
Prioridades == {Num(1), Num(9), Num(0), Num(0 - 1), NumMedio(1)}

\* a call of crearEventoBase
ConstruirEventoBase ==
  /\ \E id \in GenerarUUID, ts \in TimestampActual :
     \E tipo \in {Str("cart:itemAdded"), Str("")} :
     \E origen \in {Undef, Str("k1")}, dispositivoId \in {Undef, Str("term-1")} :
     \E prioridad \in Prioridades \cup {Undef} :
       construido' = [fn |-> "crearEventoBase",
                      evento |-> CrearEventoBase(id, ts, tipo, Obj("p1"), origen,
                                                 prioridad, dispositivoId)]
  /\ UNCHANGED <<arranque, corazon, trazaGlobal>>
  /\ UNCHANGED varsBroker
  /\ UNCHANGED varsRegistro
  /\ UNCHANGED varsConexion

\* the values of type TipoEvento a caller passes to crearEvento
ParametrosCrearEvento ==
  { [CrudoBase EXCEPT !.prioridad = p, !.tipo = tp, !.dispositivoId = d] :
      p \in Prioridades, tp \in {Str("cart:itemAdded"), Str("")},
      d \in {Str("term-1"), Str("term-2")} }

\* a call of crearEvento
ConstruirEvento ==
  /\ \E id \in GenerarUUID, ts \in TimestampActual, params \in ParametrosCrearEvento :
       construido' = [fn |-> "crearEvento", evento |-> CrearEvento(id, ts, params)]
  /\ UNCHANGED <<arranque, corazon, trazaGlobal>>
  /\ UNCHANGED varsBroker
  /\ UNCHANGED varsRegistro
  /\ UNCHANGED varsConexion

NextConstruccion == ConstruirEventoBase \/ ConstruirEvento

SpecConstruccion == InitGateway /\ [][NextConstruccion]_vars

(***************************************************************************)
(* Revocations and the broker: revocation events arrive and the broker     *)
(* ingests messages, over a loaded registry.                               *)
(***************************************************************************)
NextRevocacion ==
  \/ LlaveRevocada
  \/ ProcesarEvento

SpecRevocacion == InitBroker /\ [][NextRevocacion]_vars

(***************************************************************************)
(* The arrays the registries hand out: loads, getters, changes the caller  *)
(* makes to what it was handed, and checks.                                *)
(***************************************************************************)
NextSnapshot ==
  \/ CargarListaAutorizada
  \/ GetDispositivos
  \/ GetDispositivosAutorizados
  \/ MutarDevuelta
  \/ EsDispositivoAutorizado

SpecSnapshot == InitBroker /\ [][NextSnapshot]_vars

(***************************************************************************)
(* The running process: connections, frames, socket errors, signals, and   *)
(* the first handler another module adds for microservidor:errorConexion.  *)
(***************************************************************************)
NextProceso ==
  \/ Conectar
  \/ RecibirMensaje
  \/ ManejarError
  \/ ManejarClose
  \/ (ListenerCount = 1 /\ SuscribirseEvento)
  \/ RecibirSenal
  \/ SalirProceso

SpecProceso == InitGateway /\ [][NextProceso]_vars

(***************************************************************************)
(* The handlers of the buses: subscriptions, unsubscriptions, restarts.    *)
(***************************************************************************)
NextBus ==
  \/ SuscribirseEvento
  \/ DesuscribirseEvento
  \/ ReiniciarCorazon

SpecBus == InitGateway /\ [][NextBus]_vars

(***************************************************************************)
(* Properties of the broker and the distributor.                           *)
(***************************************************************************)
\* a procesarEvento call has run (every call emits at least one event)
HuboLlamada == traza # << >>

Posiciones == 1..Len(traza)
PosRecibido == { i \in Posiciones : traza[i].tipo = "core:eventoRecibido" }
PosDistribucion ==
  { i \in Posiciones : traza[i].dato.forma = "evento"
                       /\ traza[i].tipo # "core:eventoRecibido" }
PosEnvelope == { i \in Posiciones : traza[i].dato.forma = "evento" }
PosInvalido ==
  { i \in Posiciones : traza[i].tipo = "core:errorDetectado"
                       /\ traza[i].dato.forma = "EVENTO_INVALIDO" }
PosRevocada == { i \in Posiciones : traza[i].tipo = "core:llaveRevocada" }
PosConfirmacion == { i \in Posiciones : traza[i].dato.forma = "confirmacion" }

EntradaAutorizada == ValidarLlaveDispositivo(entrada.dispositivoId, entrada.origen)

\* C1: a raw input that fails the envelope validation is never published as
\* core:eventoRecibido and never reaches distribuirEvento; exactly one
\* EVENTO_INVALIDO diagnostic carrying the raw input is published.
C1_PuertaEstructural ==
  (HuboLlamada /\ ~EsquemaAcepta(entrada)) =>
    /\ PosRecibido = {}
    /\ PosEnvelope = {}
    /\ Cardinality(PosInvalido) = 1
    /\ \A i \in PosInvalido : traza[i].dato.cuerpo = entrada

\* the input {"payload": {...}} without meta has been rejected
C1_Testigo ==
  /\ HuboLlamada
  /\ entrada.objeto /\ ~entrada.meta /\ entrada.payload.t = "obj"
  /\ Cardinality(PosInvalido) = 1

\* C2: a structurally valid envelope of an unknown or inactive device, or
\* with a key that does not match, is neither published as core:eventoRecibido
\* nor distributed; one core:llaveRevocada naming the device id is published.
C2_PuertaAutorizacion ==
  (HuboLlamada /\ EsquemaAcepta(entrada) /\ ~EntradaAutorizada) =>
    /\ PosRecibido = {}
    /\ PosEnvelope = {}
    /\ Cardinality(PosRevocada) = 1
    /\ \A i \in PosRevocada : traza[i].dato.dispositivo = entrada.dispositivoId

\* an envelope of the inactive device term-1 has been rejected
C2_Testigo ==
  /\ HuboLlamada /\ EsquemaAcepta(entrada)
  /\ entrada.dispositivoId = Str("term-1")
  /\ \E i \in 1..Len(llavesTabla) :
       llavesTabla[i].id = Str("term-1") /\ llavesTabla[i].activo = Bool(FALSE)
  /\ Cardinality(PosRevocada) = 1

Publicado ==
  /\ Cardinality(PosRecibido) = 1
  /\ Cardinality(PosDistribucion) = 1
  /\ PosInvalido = {} /\ PosRevocada = {}
RechazadoEstructura ==
  /\ Cardinality(PosInvalido) = 1
  /\ PosEnvelope = {} /\ PosRevocada = {}
RechazadoAutorizacion ==
  /\ Cardinality(PosRevocada) = 1
  /\ PosEnvelope = {} /\ PosInvalido = {}

\* C3: every procesarEvento call ends in exactly one outcome: published (one
\* core:eventoRecibido and one distribution), rejected by structure (one
\* EVENTO_INVALIDO) or rejected by authorization (one core:llaveRevocada);
\* a message that passed both validations is not reported as invalid.
C3_UnSoloResultado ==
  HuboLlamada =>
    /\ Publicado \/ RechazadoEstructura \/ RechazadoAutorizacion
    /\ (EsquemaAcepta(entrada) /\ EntradaAutorizada) => Publicado

\* C4: every handler subscribed for the meta.tipo of a valid, authorized
\* envelope is called exactly once for it, with the payload of the raw input.
C4_FanOutCompleto ==
  (HuboLlamada /\ EsquemaAcepta(entrada) /\ EntradaAutorizada) =>
    \A h \in 1..Len(subs[entrada.tipo.s]) :
      Cardinality({ i \in PosEnvelope :
                      /\ traza[i].tipo = entrada.tipo.s
                      /\ traza[i].llamados >= h
                      /\ traza[i].dato.payload = entrada.payload }) = 1

\* C5: when a handler throws during an emission, every other handler
\* subscribed for that event type is still called.
C5_Aislamiento ==
  \A i \in Posiciones : traza[i].llamados = Len(subs[traza[i].tipo])

\* C6: a core:eventoDistribuido confirmation follows the core:eventoRecibido
\* of the envelope id it references; none is published without one.
C6_RecibidoAntesQueDistribuido ==
  \A j \in PosConfirmacion :
    \E i \in PosRecibido :
      /\ i < j
      /\ traza[i].dato.forma = "evento"
      /\ traza[i].dato.cuerpo.id = traza[j].dato.origId

\* an envelope has been received, distributed and confirmed
C6_Testigo ==
  /\ PosConfirmacion # {}
  /\ PosRecibido # {}
  /\ \E j \in PosConfirmacion : traza[j].dato.origId = entrada.id

(***************************************************************************)
(* Properties of the registries.                                           *)
(***************************************************************************)
HayRegistroAutorizado(tabla, id, llave) ==
  \E i \in 1..Len(tabla) :
    tabla[i].id = id /\ tabla[i].activo = Bool(TRUE) /\ tabla[i].llave = llave

PosNoAutorizado ==
  { i \in 1..Len(trazaGlobal) :
      trazaGlobal[i].tipo = "microservidor:dispositivoNoAutorizado" }

\* C7: esDispositivoAutorizado(id, llave) is true exactly when the table
\* holds a record with that id that is active and has that key; a false
\* result comes with one dispositivoNoAutorizado diagnostic whose motivo
\* names the failure; on an empty table the result is false.
C7_AutorizadoSiYSoloSi ==
  ultimaOp.op = "esDispositivoAutorizado" =>
    /\ ultimaOp.retorno =
         HayRegistroAutorizado(dispositivosAutenticacion, ultimaOp.id, ultimaOp.llave)
    /\ dispositivosAutenticacion = << >> => ~ultimaOp.retorno
    /\ ~ultimaOp.retorno =>
         /\ Cardinality(PosNoAutorizado) = 1
         /\ \A i \in PosNoAutorizado :
              /\ trazaGlobal[i].dato.dispositivo = ultimaOp.id
              /\ trazaGlobal[i].dato.payload \in
                   { Str("Dispositivo no encontrado"), Str("Dispositivo inactivo"),
                     Str("Llave incorrecta") }

PosErrorCarga ==
  { i \in Posiciones : traza[i].tipo = "core:errorDetectado"
                       /\ traza[i].dato.forma = "errorCarga" }
PosErrorCargaGlobal ==
  { i \in 1..Len(trazaGlobal) : trazaGlobal[i].tipo = "core:errorDetectado"
                                /\ trazaGlobal[i].dato.forma = "errorCarga" }

\* C8: a load is all or nothing: a source that cannot be read or parsed, or
\* that holds a record outside the device record shape, leaves the table as
\* it was and an error diagnostic is emitted; a load that succeeds leaves
\* the table equal to the records of the new list.
C8_CargaTodoONada ==
  /\ ultimaOp.op = "cargarDispositivos" =>
       /\ dispositivosAutorizados = ultimaOp.esperada
       /\ ~ultimaOp.valido => PosErrorCarga # {}
  /\ ultimaOp.op = "cargarListaAutorizada" =>
       /\ dispositivosAutenticacion = ultimaOp.esperada
       /\ ~ultimaOp.valido => PosErrorCargaGlobal # {}

\* a load of the core registry has been rejected with a table of two
\* records in place
C8_Testigo ==
  /\ ultimaOp.op = "cargarDispositivos" /\ ~ultimaOp.valido
  /\ Len(dispositivosAutorizados) = 2
  /\ PosErrorCarga # {}

(***************************************************************************)
(* Properties of the gateway.                                              *)
(***************************************************************************)
\* C9: a core:llaveRevocada naming a device that has a live connection
\* closes that connection and removes its entry from the map in the same
\* step, with the reason 'Llave revocada por el sistema'.
C9_RevocacionCierra ==
  (pasoGw.op = "revocar" /\ pasoGw.socket # 0) =>
    /\ socks[pasoGw.socket].estado # "open"
    /\ ~MapHas(conexiones, pasoGw.clave)

\* C10: the map holds at most one connection per device id; the message
\* by which a socket identifies itself as D leaves the entry of D on that
\* socket, also when an earlier socket was mapped to D; a targeted send
\* to D writes on no other socket than the latest one identified as D.
C10_UnaConexionPorDispositivo ==
  /\ \A e1, e2 \in conexiones : e1.clave = e2.clave => e1 = e2
  /\ pasoGw.op = "identificar" => MapGet(conexiones, pasoGw.clave) = pasoGw.socket
  /\ pasoGw.op = "enviar" => pasoGw.escritos \subseteq {ultimoIdentificado[pasoGw.clave]}

\* two open sockets have identified themselves as term-2 and a send to
\* term-2 has been written on the second
C10_Testigo ==
  /\ \E j, k \in 1..MaxSockets :
       /\ j # k
       /\ socks[j].estado = "open" /\ socks[k].estado = "open"
       /\ socks[j].dispositivoId = Str("term-2") /\ socks[k].dispositivoId = Str("term-2")
       /\ ultimoIdentificado[Str("term-2")] = k
       /\ pasoGw.escritos = {k}
  /\ pasoGw.op = "enviar" /\ pasoGw.clave = Str("term-2")

\* C11: the close of a connection removes exactly the entries of the map
\* that refer to that connection; every entry that refers to another
\* connection is left as it was.
C11_CierreQuitaSoloLoPropio ==
  [][ManejarClose =>
        conexiones' = { e \in conexiones : e.socket # pasoGw'.socket }]_vars

MensajeRecibido == pasoGw.op \in {"mensaje", "identificar"}

PosGw(tipo) == { i \in 1..Len(trazaGlobal) : trazaGlobal[i].tipo = tipo }

\* C12: every inbound message that decodes as JSON is forwarded to the
\* broker exactly once and as it was decoded, whatever its structure.
C12_ReenvioTextual ==
  (MensajeRecibido /\ ultimoMensaje.json) =>
    /\ Cardinality(PosGw("core:procesarEvento")) = 1
    /\ \A i \in PosGw("core:procesarEvento") :
         trazaGlobal[i].dato.cuerpo = ultimoMensaje.datos /\ ~ultimoMensaje.nulo

\* C13: a message produces a microservidor:errorConexion when and only
\* when it does not decode as JSON; an undecodable message produces exactly
\* one and no microservidor:eventoEntrante, a decodable one exactly one
\* microservidor:eventoEntrante and no error.
C13_ErrorSiYSoloSiIndecodificable ==
  MensajeRecibido =>
    IF ultimoMensaje.json
      THEN /\ Cardinality(PosGw("microservidor:eventoEntrante")) = 1
           /\ PosGw("microservidor:errorConexion") = {}
      ELSE /\ Cardinality(PosGw("microservidor:errorConexion")) = 1
           /\ PosGw("microservidor:eventoEntrante") = {}

SocketsAbiertos == { k \in 1..MaxSockets : socks[k].estado = "open" }

\* C14: enviarMensajeATodos writes the message once on every connection
\* that is open and on no other, and returns the number of connections it
\* wrote on.
C14_DifusionATodos ==
  pasoGw.op = "enviarATodos" =>
    /\ pasoGw.escritos = SocketsAbiertos
    /\ enviados = Cardinality(pasoGw.escritos)

\* C15: enviarMensajeADispositivo(D, m) writes only on the connection
\* mapped to D and returns true; when no connection is mapped to D or the
\* mapped one is not open it writes nothing, returns false, and the map
\* stays as it was.
C15_EntregaDirigida ==
  /\ [](pasoGw.op = "enviar" =>
          LET abierta == /\ MapHas(conexiones, pasoGw.clave)
                         /\ MapGet(conexiones, pasoGw.clave) \in SocketsAbiertos
          IN /\ pasoGw.retorno = abierta
             /\ pasoGw.escritos =
                  IF abierta THEN {MapGet(conexiones, pasoGw.clave)} ELSE {})
  /\ [][EnviarMensajeADispositivo => UNCHANGED <<conexiones, socks>>]_vars

\* term-2 is mapped to a socket whose transport has closed, and a send to
\* term-2 has returned false; term-1 is still connected
C15_Testigo ==
  /\ pasoGw.op = "enviar" /\ pasoGw.clave = Str("term-2")
  /\ MapHas(conexiones, Str("term-2"))
  /\ ~pasoGw.retorno /\ pasoGw.escritos = {}
  /\ MapHas(conexiones, Str("term-1"))
  /\ MapGet(conexiones, Str("term-1")) \in SocketsAbiertos

\* the message decodes and carries a contexto.dispositivoId
LlevaDispositivoId(m) ==
  m.json /\ ~m.nulo /\ m.datos.contexto /\ Truthy(m.datos.dispositivoId)

PosEstablecida == PosGw("microservidor:conexionEstablecida")

C17_CargaAtomica ==
  /\ llavesTabla = dispositivosAutorizados
  /\ dispositivosAutorizados = aceptadas.core
  /\ dispositivosAutenticacion = aceptadas.gw
  /\ ultimaOp.op = "validarLlaveDispositivo" =>
       ultimaOp.retorno = HayRegistroAutorizado(aceptadas.core, ultimaOp.id, ultimaOp.llave)
  /\ ultimaOp.op = "esDispositivoAutorizado" =>
       ultimaOp.retorno = (MotivoRechazo(aceptadas.gw, ultimaOp.id, ultimaOp.llave) = "")

\* a key validation has succeeded against the loaded table while two
\* reloads await the read of their source
C17_Testigo ==
  /\ cargasEnVuelo = 2
  /\ ultimaOp.op = "validarLlaveDispositivo" /\ ultimaOp.retorno
  /\ Len(dispositivosAutorizados) = 2

SinIdRepetido(tabla) ==
  \A i, j \in 1..Len(tabla) : tabla[i].id = tabla[j].id => i = j

\* C18: after any sequence of loads the registries hold at most one record
\* per id.
C18_UnRegistroPorId ==
  /\ SinIdRepetido(dispositivosAutorizados)
  /\ SinIdRepetido(dispositivosAutenticacion)

(***************************************************************************)
(* Properties of revocation and of the published envelope.                 *)
(***************************************************************************)
\* the latest revocation event named the device id of the message that
\* procesarEvento was given after it
RevocadoAntes ==
  /\ HuboLlamada
  /\ pasoGw.op = "revocar" /\ pasoGw.clave = entrada.dispositivoId

\* C19: a revocation changes no registry table, and a message that claims
\* the device id a revocation has just named is published or rejected as
\* the registry record of that device dictates.
C19_RevocacionNoTocaRegistro ==
  /\ [][LlaveRevocada \/ ProcesarEvento =>
          UNCHANGED <<llavesTabla, dispositivosAutorizados, dispositivosAutenticacion>>]_vars
  /\ []((RevocadoAntes /\ EsquemaAcepta(entrada)) =>
          /\ (PosRecibido # {}) = EntradaAutorizada
          /\ (PosRevocada # {}) = ~EntradaAutorizada)

\* term-1 has been named by a revocation, and a later message of term-1
\* with the registered key has been published
C19_Testigo ==
  /\ RevocadoAntes /\ EsquemaAcepta(entrada)
  /\ entrada.dispositivoId = Str("term-1")
  /\ EntradaAutorizada
  /\ PosRecibido # {} /\ PosRevocada = {}

\* C20: the envelope published as core:eventoRecibido and handed to the
\* distributor equals the raw input that passed the validation.
C20_EnvelopeSinCambios ==
  \A i \in PosEnvelope : traza[i].dato.cuerpo = entrada

(***************************************************************************)
(* Fault handling in the distributor.                                      *)
(***************************************************************************)
\* the emissions made by distribuirEvento under the type of the envelope:
\* the envelope emissions that follow the broker's core:eventoRecibido
PosEntrega == { i \in PosEnvelope : \E j \in PosEnvelope : j < i }

\* the distribution emissions in which a handler threw
PosDistribucionFallida ==
  { i \in PosEntrega :
      /\ traza[i].llamados > 0
      /\ subs[traza[i].tipo][traza[i].llamados] }
PosErrorDistribucion ==
  { i \in Posiciones : traza[i].tipo = "core:errorDetectado"
                       /\ traza[i].dato.forma = "errorDistribucion" }

\* C21: when a handler throws while distribuirEvento publishes the envelope,
\* distribuirEvento does not throw, publishes a core:errorDetectado naming
\* the id and the type of the envelope, and still publishes the
\* core:eventoDistribuido confirmation.
C21_FalloDeSuscriptorContenido ==
  PosDistribucionFallida # {} =>
    /\ ~DistribuirEvento(EsquemaParse(entrada)).lanzo
    /\ \E j \in PosErrorDistribucion :
         /\ traza[j].dato.origId = entrada.id
         /\ traza[j].dato.origTipo = entrada.tipo
    /\ PosConfirmacion # {}

\* C22: distribuirEvento publishes the envelope it was given, unchanged, and
\* every confirmation carries only the id, type and origin of that envelope
\* (with the distribution timestamp), never a copy of its payload.
C22_ConfirmacionSoloMetadatos ==
  /\ \A i \in PosEntrega :
       \E j \in PosRecibido :
         j < i /\ traza[i].dato = traza[j].dato
  /\ \A c \in PosConfirmacion :
       /\ traza[c].dato.payload = Undef
       /\ traza[c].dato.cuerpo = CrudoNulo
       /\ \E i \in PosEntrega :
            /\ i < c
            /\ traza[c].dato.origId = traza[i].dato.cuerpo.id
            /\ traza[c].dato.origTipo = traza[i].dato.cuerpo.tipo
            /\ traza[c].dato.origOrigen = traza[i].dato.cuerpo.origen

\* an envelope of priority 9 with an object payload has been confirmed
C22_Testigo ==
  /\ PosConfirmacion # {}
  /\ entrada.prioridad = Num(9)
  /\ entrada.payload.t = "obj"

(***************************************************************************)
(* Faults at the gateway.                                                  *)
(***************************************************************************)
\* the latest step handled a transport-level failure on socket k: a message
\* that does not decode, or an error event
FalloDeTransporte(k) ==
  /\ pasoGw.socket = k
  /\ \/ MensajeRecibido /\ ~ultimoMensaje.json
     \/ pasoGw.op = "error"

\* C23: after a message that does not decode or a socket error event, the
\* connection is torn down (the socket is no longer open) and, once it has
\* closed, no entry of the connection map refers to it.
C23_FalloDeTransporteCierra ==
  \A k \in 1..MaxSockets :
    FalloDeTransporte(k) =>
      /\ socks[k].estado # "open"
      /\ socks[k].estado = "cerrado" => \A e \in conexiones : e.socket # k

\* C24: once the start has completed, no error of a message, of the
\* registry, of a connection or of a subscriber ends the process: the
\* process never exits because of an exception.
C24_ProcesoSobreviveErrores ==
  ~(proceso.estado = "terminado" /\ proceso.causa = "uncaughtException")

\* C29: the handlers of one event type never number more than the
\* configured bound, whatever subscriptions, unsubscriptions and restarts
\* have happened.
C29_SuscriptoresAcotados ==
  /\ ListenerCount <= MaxListeners
  /\ listenersSistema <= MaxListeners

Reenviable(m) ==
  m.json /\ ~m.nulo /\ m.datos.meta /\ Truthy(m.datos.tipo)

CamposRequeridosValidos(c) ==
  /\ c.objeto /\ c.meta /\ c.contexto
  /\ EsString(c.id) /\ c.id.s # ""
  /\ EsString(c.timestamp) /\ c.timestamp.s \in CadenasFechaIso
  /\ EsString(c.tipo) /\ c.tipo.s # ""
  /\ EsString(c.origen) /\ c.origen.s # ""
  /\ EsEnteroPositivo(c.prioridad)
  /\ c.payload.t = "obj"
  /\ EsString(c.dispositivoId) /\ c.dispositivoId.s # ""

\* C27: the envelope validation accepts a raw value only if every required
\* field is present and valid; an envelope whose meta.tipo, meta.origen or
\* contexto.dispositivoId is the empty string is rejected, by the schema of
\* the broker and by esEventoValido.
C27_ValidacionEstricta ==
  HuboLlamada =>
    /\ PosInvalido = {} => CamposRequeridosValidos(entrada)
    /\ EsEventoValido(entrada) => CamposRequeridosValidos(entrada)

(***************************************************************************)
(* The arrays handed out by the registries.                                *)
(***************************************************************************)
\* C28: the arrays getDispositivos and getDispositivosAutorizados return are
\* snapshots: no change the caller makes to one (removing or adding an
\* element, assigning to activo or llave of an element) changes a registry
\* table, and a later check answers from the list the latest load accepted.
C28_ListasSonInstantaneas ==
  /\ [][MutarDevuelta =>
          UNCHANGED <<dispositivosAutorizados, dispositivosAutenticacion>>]_vars
  /\ [](ultimaOp.op = "esDispositivoAutorizado" =>
          ultimaOp.retorno =
            (MotivoRechazo(aceptadas.gw, ultimaOp.id, ultimaOp.llave) = ""))

(***************************************************************************)
(* Publishing on the bus.                                                  *)
(***************************************************************************)
\* C30: an emission calls, before emit returns, every handler subscribed
\* for the type at the time of the call, in the order of subscription.
C30_PublicarInvocaATodosEnOrden ==
  \A i \in Posiciones :
    traza[i].orden = [h \in 1..Len(subs[traza[i].tipo]) |-> h]

\* C35: overlapping registry reloads: a cargarDispositivos call that resolves
\* after a call started later has assigned the table leaves the table as the
\* later call set it, so that once all calls have completed the table holds
\* the list read by the most recently started one.
C35_RecargaMasRecienteGana ==
  [][(ultimaOp'.op = "cargarDispositivos" /\ superadas' < superadas)
       => dispositivosAutorizados' = dispositivosAutorizados]_vars

\* the event types the core publishes to control the system
TiposDeControl ==
  {"core:reiniciarSistema", "core:modoOffline", "core:llaveRevocada",
   "core:eventoRecibido", "core:eventoDistribuido", "core:errorDetectado"}

\* C32: the control events are published by core components only: whatever
\* meta.tipo an envelope received from a device carries, no handler
\* registered for a control type runs on the publication of that envelope
\* under its own type.
C32_ControlSoloDelNucleo ==
  \A i \in PosEntrega :
    traza[i].tipo \in TiposDeControl => traza[i].llamados = 0

\* C33: identity binding: a frame received on a connection is forwarded to
\* the broker as an envelope it can publish only if the device the
\* envelope names is the device the connection is identified as.
C33_IdentidadLigada ==
  (MensajeRecibido /\ socks[pasoGw.socket].dispositivoId # Undef) =>
    \A i \in PosGw("core:procesarEvento") :
      EsquemaAcepta(trazaGlobal[i].dato.cuerpo) =>
        trazaGlobal[i].dato.cuerpo.dispositivoId = socks[pasoGw.socket].dispositivoId

\* the latest step delivered a core:llaveRevocada as procesarEvento builds it
RevocacionDelBroker ==
  /\ pasoGw.op = "revocar"
  /\ trazaGlobal # << >>
  /\ trazaGlobal[1].dato = DatoRevocacionBroker(pasoGw.clave)

\* C34: every core:llaveRevocada that procesarEvento emits is handled by the
\* revocation listener of the gateway without an exception and yields
\* exactly one microservidor:cerrarConexion naming the same device id.
C34_RevocacionDelBrokerManejada ==
  RevocacionDelBroker =>
    /\ ~pasoGw.retorno
    /\ Cardinality(PosGw("microservidor:cerrarConexion")) = 1
    /\ \A i \in PosGw("microservidor:cerrarConexion") :
         trazaGlobal[i].dato.dispositivo = pasoGw.clave

\* the key the handlers of socket k use for it: its temporary id until a
\* frame has identified it, the device id afterwards
ClaveDeSocket(k) ==
  IF socks[k].dispositivoId = Undef THEN ClaveTemporal(k) ELSE socks[k].dispositivoId

\* C40: connection map invariant: each connection appears under at most one
\* key, its temporary id before identification and its device id after,
\* never both, and a connection whose close event has been handled appears
\* under no key.
C40_MapaDeConexiones ==
  /\ \A e1, e2 \in conexiones : e1.socket = e2.socket => e1 = e2
  /\ \A e \in conexiones :
       /\ e.clave = ClaveDeSocket(e.socket)
       /\ socks[e.socket].estado # "cerrado"

\* one connection is identified, open and stored under its device id while
\* the close event of another identified connection has been handled
C40_Testigo ==
  \E k, j \in 1..MaxSockets :
    /\ socks[k].estado = "open"
    /\ socks[k].dispositivoId # Undef
    /\ MapGet(conexiones, socks[k].dispositivoId) = k
    /\ socks[j].estado = "cerrado"
    /\ socks[j].dispositivoId # Undef

\* C31: build/validate round trip: whatever the arguments, the envelope that
\* crearEventoBase or crearEvento returns is accepted by the structural
\* validation of the broker.
C31_ConstruidoEsValido ==
  construido.fn # "ninguna" => EsquemaAcepta(construido.evento)

\* the emissions of the latest step on the core's bus that have that type
PosTipo(tipo) == { i \in Posiciones : traza[i].tipo = tipo }

\* C38: the core initialises once per start: an iniciarCorazon call made
\* after the start, or while a previous call is still running, registers no
\* system listener, and core:listo is emitted once per start; a call made
\* when the core has started changes no state and emits no event.
C38_InicioUnaVez ==
  /\ [](corazon.listos <= 1)
  /\ [][(pasoGw'.op = "iniciarCorazon" /\ (corazon.iniciado \/ corazon.enCurso > 0))
         => (listenersSistema' = listenersSistema /\ traza' = << >>)]_vars

\* C39: a restart does not duplicate handlers: once the core has started
\* again, one core:ping yields exactly one core:pong and one
\* core:reiniciarSistema triggers exactly one restart.
C39_ReinicioNoDuplica ==
  [][(corazon.iniciado /\ corazon.enCurso = 0) =>
       /\ pasoGw'.op = "ping" => Cardinality(PosTipo("core:pong")') = 1
       /\ pasoGw'.op = "reiniciarSistema" =>
            Cardinality(PosTipo("core:reiniciando")') = 1]_vars

\* a critical microservidor:errorConexion is among the latest emissions
HayErrorCritico ==
  \E i \in PosGw("microservidor:errorConexion") :
    trazaGlobal[i].dato = DatoErrorInicio

\* C36: gateway startup ordering: microservidor:listo is emitted only after
\* the configuration has been loaded, the configuration check has passed,
\* the listeners have been registered and the WebSocket server is
\* listening, in this order; when a step fails, listo is not emitted, a
\* critical microservidor:errorConexion is emitted and the process exits
\* with code 1.
C36_OrdenDeArranque ==
  /\ PosGw("microservidor:listo") # {} =>
       /\ arranque.configLegible
       /\ arranque.puertoLibre
       /\ arranque.pasos = <<"config", "validacion", "listeners", "websocket", "listo">>
  /\ arranque.fase = "fallido" =>
       /\ PosGw("microservidor:listo") = {}
       /\ HayErrorCritico
       /\ proceso = ProcesoSalida1

\* C37: gateway startup liveness: when the configuration file is readable
\* and valid and the port can be bound, iniciarMicroservidor eventually
\* emits microservidor:listo and does not terminate the process.
C37_ArranqueTermina ==
  /\ [](( /\ arranque.fase # "sinIniciar"
          /\ arranque.configLegible
          /\ arranque.puertoLibre ) => proceso.estado # "terminado")
  /\ ( /\ arranque.fase = "cargandoConfig"
       /\ arranque.configLegible
       /\ arranque.puertoLibre ) ~> (arranque.fase = "listo")

====
